---- MODULE Spec2Model ----
(***************************************************************************)
(* The amortization engine of FinCalc: calculateLoan, in its two versions  *)
(*   "v1"  src/client/src/lib/calculator.ts      (7 parameters)            *)
(*   "v2"  src/unnamed/part_001, lines 100-405   (8 parameters, with       *)
(*         fullEmiAtStart, day-wise interest and a monthly EMI refresh).   *)
(* One behaviour of the model is one call: Init is the state after the     *)
(* declarations that precede the month loop, every step of the loop is one *)
(* action, and the code after the loop is the last action.                 *)
(*                                                                         *)
(* Numbers.  A Date is the number of its day (days since 1970-01-01; the   *)
(* time of day is not modelled).  Money is an integer count of minor units *)
(* (1/100 of the currency unit), an annual rate is an integer percentage,  *)
(* and a JavaScript double that is neither is a fixed-point integer with   *)
(* FixedOne standing for 1.0.  A division rounds down, a fixed-point        *)
(* product of Math.pow rounds to the nearest.                              *)
(***************************************************************************)
EXTENDS Integers, Sequences, FiniteSets

VARIABLES
    variant,              \* which version of calculateLoan runs
    loanTenureYears, initialInterestRate, startDate,
    loanEndDate,          \* addMonths(startDate, loanTenureYears * 12)
    disbursals, interestRateChanges, extraPayments, fullEmiAtStart,
    sortedDisbursals, sortedRateChanges, sortedExtraPayments,
    month, currentDate, currentPrincipal, currentPhaseIndex,
    currentInterestRate, currentEmi,
    schedule, phases,
    totalInterest, totalDisbursed, totalExtraPaid,
    processedDisbursals, processedRateChanges, processedExtraPayments,
    pc,                   \* "loop", "exit" (loop left), "done" (returned)
    exitBy,               \* "none", "break" (closure check), "cap" (month > maxMonths)
    summary,              \* the returned summary, NoSummary before the return
    history,              \* the calls returned so far: arguments and result
    calculations,         \* the table "calculations": id -> row
    idSequence,           \* the last value of the serial of column id
    apiLog                \* the statements the API handlers ran, in order

inputVars == <<variant, loanTenureYears, initialInterestRate, startDate, loanEndDate,
               disbursals, interestRateChanges, extraPayments, fullEmiAtStart,
               sortedDisbursals, sortedRateChanges, sortedExtraPayments>>

loopVars == <<month, currentDate, currentPrincipal, currentPhaseIndex,
              currentInterestRate, currentEmi, schedule, phases,
              totalInterest, totalDisbursed, totalExtraPaid,
              processedDisbursals, processedRateChanges, processedExtraPayments>>

calcVars == <<inputVars, loopVars, pc, exitBy, summary, history>>

apiVars == <<calculations, idSequence, apiLog>>

vars == <<calcVars, apiVars>>

-----------------------------------------------------------------------------
(* Bounds of the model and the scales of its numbers.                      *)

\* The most events (disbursals + rate changes + extra payments) of one input.
MaxEvents == 3

\* 1.0 in fixed point, and its square root.
FixedOne == 1000000
FixedRoot == 1000

\* Minor units per currency unit.
MoneyScale == 100

\* endDate: null
NullDate == -1

Max(a, b) == IF a >= b THEN a ELSE b
Min(a, b) == IF a <= b THEN a ELSE b

\* floor(a * b / c) for a, b >= 0 and c > 0 without forming a * b.
MulDiv(a, b, c) == (a \div c) * b + ((a % c) * b) \div c

\* a * b / FixedOne rounded to the nearest, b taken in two halves of
\* FixedRoot so that no product leaves 32 bits.
MulFix(a, b) ==
    (a * (b \div FixedRoot) + (a * (b % FixedRoot)) \div FixedRoot
       + FixedRoot \div 2) \div FixedRoot

\* floor(a * FixedOne / c) for a >= 0 and c > 0, by long division in two
\* steps of FixedRoot.
DivFix(a, c) ==
    ((a * FixedRoot) \div c) * FixedRoot
        + (((a * FixedRoot) % c) * FixedRoot) \div c

-----------------------------------------------------------------------------
(* The calendar: Date, addMonths, differenceInDays (date-fns).             *)

IsLeap(y) == (y % 4 = 0 /\ y % 100 # 0) \/ y % 400 = 0

DaysInMonth(y, m) ==
    IF m = 2 THEN (IF IsLeap(y) THEN 29 ELSE 28)
    ELSE IF m \in {4, 6, 9, 11} THEN 30 ELSE 31

\* The day number of the civil date y-m-d (proleptic Gregorian).
DayOf(y, m, d) ==
    LET yy  == IF m <= 2 THEN y - 1 ELSE y
        era == yy \div 400
        yoe == yy - era * 400
        mp  == IF m > 2 THEN m - 3 ELSE m + 9
        doy == (153 * mp + 2) \div 5 + d - 1
        doe == yoe * 365 + yoe \div 4 - yoe \div 100 + doy
    IN  era * 146097 + doe - 719468

\* The civil date of a day number: [y, m, d].
CivilOf(z0) ==
    LET z   == z0 + 719468
        era == z \div 146097
        doe == z - era * 146097
        yoe == (doe - doe \div 1460 + doe \div 36524 - doe \div 146096) \div 365
        doy == doe - (365 * yoe + yoe \div 4 - yoe \div 100)
        mp  == (5 * doy + 2) \div 153
        d   == doy - (153 * mp + 2) \div 5 + 1
        m   == IF mp < 10 THEN mp + 3 ELSE mp - 9
        y   == yoe + era * 400 + (IF m <= 2 THEN 1 ELSE 0)
    IN  [y |-> y, m |-> m, d |-> d]

\* addMonths(date, n): the same day of the month n months later, or the last
\* day of that month when it is shorter.
AddMonths(date, n) ==
    LET c  == CivilOf(date)
        t  == c.y * 12 + (c.m - 1) + n
        y2 == t \div 12
        m2 == (t % 12) + 1
    IN  DayOf(y2, m2, Min(c.d, DaysInMonth(y2, m2)))

\* differenceInDays(later, earlier): whole days from earlier to later.
DifferenceInDays(later, earlier) == later - earlier

-----------------------------------------------------------------------------
(* Sorting: [...list].sort((a, b) => a.date.getTime() - b.date.getTime()),  *)
(* a stable sort by date.                                                  *)

RECURSIVE InsertByDate(_, _)
InsertByDate(e, s) ==
    IF s = << >> THEN <<e>>
    ELSE IF Head(s).date <= e.date THEN <<Head(s)>> \o InsertByDate(e, Tail(s))
    ELSE <<e>> \o s

RECURSIVE SortByDate(_)
SortByDate(s) ==
    IF s = << >> THEN << >>
    ELSE InsertByDate(s[Len(s)], SortByDate(SubSeq(s, 1, Len(s) - 1)))

RECURSIVE SumAmounts(_)
SumAmounts(s) == IF s = << >> THEN 0 ELSE Head(s).amount + SumAmounts(Tail(s))

DatesOf(s) == {s[i].date : i \in 1..Len(s)}

-----------------------------------------------------------------------------
(* The arithmetic of the EMI.                                              *)

\* Math.max(lo, daysRemaining / 30.4375) in fixed point; 30.4375 = 487 / 16.
MonthsRemaining(days, lo) ==
    IF days <= 0 THEN lo * FixedOne
    ELSE Max(lo * FixedOne, MulDiv(days * 16, FixedOne, 487))

\* annualRate / 12 / 100 in fixed point.
MonthlyRate(rate) == (rate * FixedOne) \div 1200

\* base^k for a whole k, base in fixed point, each product rounded.
RECURSIVE PowInt(_, _)
PowInt(base, k) ==
    IF k = 0 THEN FixedOne
    ELSE MulFix(PowInt(base, k - 1), base)

\* Math.pow(1 + r, n) for n in fixed point: the whole part of n by repeated
\* multiplication, the fractional part f by the binomial series
\* (1 + r)^f = 1 + f * r - f * (1 - f) * r^2 / 2, whose next term is below
\* the resolution of FixedOne for the monthly rates of a loan.
Pow(base, n) ==
    LET k == n \div FixedOne
        f == n % FixedOne
        r == base - FixedOne
        frac == FixedOne + MulFix(f, r)
                    - MulFix(MulFix(f, FixedOne - f), MulFix(r, r)) \div 2
    IN  MulFix(PowInt(base, k), frac)

\* principal * rate / 12 / 100: a month of interest at the flat monthly rate.
FlatInterest(principal, rate) == (principal * rate) \div 1200

\* The amortizing EMI of principal over max(lo, days / 30.4375) months:
\* principal / n at rate 0, else principal * r * (1+r)^n / ((1+r)^n - 1).
Annuity(principal, rate, days, lo) ==
    IF rate = 0
    THEN IF days * 16 <= lo * 487 THEN principal \div lo
         ELSE MulDiv(principal, 487, days * 16)
    ELSE LET q == Pow(FixedOne + MonthlyRate(rate), MonthsRemaining(days, lo))
         IN  FlatInterest(principal, rate)
                 + DivFix(FlatInterest(principal, rate), q - FixedOne)

\* The EMI of a new phase (monthsRemaining is at least 1 there).
PhaseEmi(principal, rate, days) ==
    IF principal > 0 /\ MonthsRemaining(days, 1) > 0
    THEN Annuity(principal, rate, days, 1)
    ELSE 0

\* The EMI recomputed after a row (monthsRemaining may be 0 there).
RefreshEmi(principal, rate, days) ==
    IF principal > 0 /\ MonthsRemaining(days, 0) > 0
    THEN Annuity(principal, rate, days, 0)
    ELSE IF principal > 0 THEN principal
    ELSE 0

-----------------------------------------------------------------------------
(* The month loop of calculateLoan.                                        *)

\* (mutant) the cap of the first version in both.
MaxMonthsOfTenure == loanTenureYears * 12 + 120

\* (mutant) a cap of the months of the tenure, without any allowance.
MaxMonthsTenureOnly == loanTenureYears * 12

\* maxMonths
MaxMonths == IF variant = "v1" THEN loanTenureYears * 12 + 120 ELSE 1200

\* (mutant) the filter without the end of the window.
InWindowNoEnd(e, monthStart, monthEnd, processed) ==
    /\ e.date >= monthStart
    /\ e.date \notin processed

\* The filter of the three event lists: dated in [monthStart, monthEnd) and
\* its date not yet in the processed set.
InWindow(e, monthStart, monthEnd, processed) ==
    /\ e.date >= monthStart
    /\ e.date < monthEnd
    /\ e.date \notin processed

\* (mutant) the month window counted from the start date, not from the
\* end of the previous window.
MonthStartFromStart == AddMonths(startDate, month - 1)

\* monthStartDate; monthEndDate = addMonths(monthStartDate, 1) is bound by the
\* actions and handed to the definitions below as their parameter.
MonthStartDate == currentDate

MonthRateChanges(monthEndDate) ==
    SelectSeq(sortedRateChanges,
              LAMBDA r : InWindow(r, MonthStartDate, monthEndDate, processedRateChanges))

MonthDisbursals(monthEndDate) ==
    SelectSeq(sortedDisbursals,
              LAMBDA d : InWindow(d, MonthStartDate, monthEndDate, processedDisbursals))

MonthExtraPayments(monthEndDate) ==
    SelectSeq(sortedExtraPayments,
              LAMBDA p : InWindow(p, MonthStartDate, monthEndDate, processedExtraPayments))

\* (mutant) the first rate change of the month takes effect.
FirstChange(monthRateChanges) == monthRateChanges[1]

\* lastChange: the rate change of the month that takes effect.
LastChange(monthRateChanges) == monthRateChanges[Len(monthRateChanges)]

RateChanged(monthEndDate) == MonthRateChanges(monthEndDate) # << >>
PrincipalChanged(monthEndDate) == MonthDisbursals(monthEndDate) # << >>

\* currentInterestRate, currentPrincipal and totalDisbursed once the month's
\* rate changes and disbursals are applied.
RateNow(monthEndDate) ==
    IF RateChanged(monthEndDate) THEN LastChange(MonthRateChanges(monthEndDate)).rate ELSE currentInterestRate
NewDisbursalAmount(monthEndDate) == SumAmounts(MonthDisbursals(monthEndDate))
PrincipalNow(monthEndDate) == currentPrincipal + NewDisbursalAmount(monthEndDate)
TotalDisbursedNow(monthEndDate) == totalDisbursed + NewDisbursalAmount(monthEndDate)
ProcessedRateChangesNow(monthEndDate) == processedRateChanges \cup DatesOf(MonthRateChanges(monthEndDate))
ProcessedDisbursalsNow(monthEndDate) == processedDisbursals \cup DatesOf(MonthDisbursals(monthEndDate))

\* (mutant) a phase opens on a disbursal only.
OpensPhaseOnDisbursalOnly(principalChanged, rateChanged) == principalChanged

\* if (principalChanged || rateChanged): the EMI is recomputed and a phase opens.
OpensPhase(principalChanged, rateChanged) == principalChanged \/ rateChanged

\* currentEmi (v1) or currentMinEmi (v2) once the phase check is done.
EmiNow(monthEndDate) ==
    IF OpensPhase(PrincipalChanged(monthEndDate), RateChanged(monthEndDate))
    THEN PhaseEmi(PrincipalNow(monthEndDate), RateNow(monthEndDate), DifferenceInDays(loanEndDate, MonthStartDate))
    ELSE currentEmi

\* The PhaseInfo pushed by the phase check.
NewPhase(monthEndDate) ==
    [phaseIndex |-> currentPhaseIndex,
     startDate |-> MonthStartDate,
     endDate |-> NullDate,
     principalAtStart |-> PrincipalNow(monthEndDate),
     disbursalAdded |-> NewDisbursalAmount(monthEndDate),
     remainingTenureMonths |->
         MonthsRemaining(DifferenceInDays(loanEndDate, MonthStartDate), 1),
     emi |-> IF variant = "v1" THEN EmiNow(monthEndDate) ELSE Max(EmiNow(monthEndDate), fullEmiAtStart),
     rate |-> RateNow(monthEndDate)]

\* (mutant) the push without closing the previous phase.
PushPhaseNoClose(list, p) == Append(list, p)

\* phases.push(p); if (phases.length > 1) phases[phases.length - 2].endDate = p.startDate
PushPhase(list, p) ==
    LET pushed == Append(list, p)
        n == Len(pushed)
    IN  IF n > 1
        THEN [pushed EXCEPT ![n - 1] = [@ EXCEPT !.endDate = p.startDate]]
        ELSE pushed

PhasesNow(monthEndDate) ==
    IF OpensPhase(PrincipalChanged(monthEndDate), RateChanged(monthEndDate)) THEN PushPhase(phases, NewPhase(monthEndDate))
    ELSE phases
PhaseIndexNow(monthEndDate) ==
    IF OpensPhase(PrincipalChanged(monthEndDate), RateChanged(monthEndDate)) THEN currentPhaseIndex + 1
    ELSE currentPhaseIndex

\* The closure threshold: currentPrincipal <= 10 (v1), <= 0.01 (v2).
WithinEpsilon(principal) ==
    IF variant = "v1" THEN principal <= 10 * MoneyScale
    ELSE principal <= MoneyScale \div 100

\* (mutant) the break without waiting for the pending disbursals.
LoanIsClosedIgnoringPending(principal, disbursed, processed) ==
    /\ WithinEpsilon(principal)
    /\ disbursed > 0

\* "Stop if loan is closed": the condition of the break.
LoanIsClosed(principal, disbursed, processed) ==
    /\ WithinEpsilon(principal)
    /\ disbursed > 0
    /\ \A i \in 1..Len(sortedDisbursals) : sortedDisbursals[i].date \in processed

ClosedNow(monthEndDate) == LoanIsClosed(PrincipalNow(monthEndDate), TotalDisbursedNow(monthEndDate), ProcessedDisbursalsNow(monthEndDate))

\* One segment of the day-wise interest: principal * (rate / 100) * (days / 365).
DayInterest(principal, rate, days) == MulDiv(principal * rate, days, 36500)

\* The loop over the month's events (v2): interest on the running principal
\* from one event to the next, then to the end of the month.
RECURSIVE DayWiseInterest(_, _, _, _, _)
DayWiseInterest(events, tempPrincipal, lastDate, rate, monthEnd) ==
    IF events = << >>
    THEN DayInterest(tempPrincipal, rate, DifferenceInDays(monthEnd, lastDate))
    ELSE LET e == Head(events)
         IN  DayInterest(tempPrincipal, rate, DifferenceInDays(e.date, lastDate))
             + DayWiseInterest(Tail(events),
                               IF e.type = "disbursal" THEN tempPrincipal + e.amount
                               ELSE tempPrincipal,
                               e.date, rate, monthEnd)

\* events: the month's disbursals, then its rate changes, sorted by date.
MonthEvents(monthEndDate) ==
    SortByDate(
        [i \in 1..Len(MonthDisbursals(monthEndDate)) |->
            [date |-> MonthDisbursals(monthEndDate)[i].date, type |-> "disbursal",
             amount |-> MonthDisbursals(monthEndDate)[i].amount]]
        \o
        [i \in 1..Len(MonthRateChanges(monthEndDate)) |->
            [date |-> MonthRateChanges(monthEndDate)[i].date, type |-> "rate", amount |-> 0]])

\* tempPrincipal: the closing principal of the last row, 0 without rows.
TempPrincipal ==
    IF Len(schedule) > 0 THEN schedule[Len(schedule)].closingPrincipal ELSE 0

\* interest of the month.
Interest(monthEndDate) ==
    IF variant = "v2" /\ MonthEvents(monthEndDate) # << >>
    THEN DayWiseInterest(MonthEvents(monthEndDate), TempPrincipal, MonthStartDate, RateNow(monthEndDate), monthEndDate)
    ELSE FlatInterest(PrincipalNow(monthEndDate), RateNow(monthEndDate))

\* (mutant) the EMI to pay without the floor of the target EMI.
EmiToPayNoFloor(monthEndDate) == EmiNow(monthEndDate)

\* emiToPay before the clamp.
EmiToPay(monthEndDate) == IF variant = "v1" THEN EmiNow(monthEndDate) ELSE Max(EmiNow(monthEndDate), fullEmiAtStart)

\* (mutant) the payment without the clamp of the reduction.
PaymentNoClamp(emi, interest, extra, principal) ==
    [emi |-> emi, principalPaid |-> Max(0, emi - interest), extra |-> extra,
     reduction |-> Max(0, emi - interest) + extra, clamped |-> FALSE]

\* The payment of the month: principalPaid floored at 0, then the reduction
\* clamped to the outstanding principal.  extra is the sum of the month's
\* extra payments.
Payment(emi, interest, extra, principal) ==
    LET paid == Max(0, emi - interest)
    IN  IF paid + extra > principal
        THEN LET e2 == IF extra > principal THEN principal ELSE extra
                 p2 == IF extra > principal THEN 0 ELSE principal - extra
             IN  [emi |-> p2 + interest, principalPaid |-> p2, extra |-> e2,
                  reduction |-> principal, clamped |-> TRUE]
        ELSE [emi |-> emi, principalPaid |-> paid, extra |-> extra,
              reduction |-> paid + extra, clamped |-> FALSE]

MonthPayment(monthEndDate) == Payment(EmiToPay(monthEndDate), Interest(monthEndDate), SumAmounts(MonthExtraPayments(monthEndDate)), PrincipalNow(monthEndDate))

\* extraPaid of the row: the extra payments (v1); plus what a paid EMI above
\* the theoretical one adds (v2).
ExtraPaid(pay, minEmi, interest) ==
    IF variant = "v1" THEN pay.extra
    ELSE pay.extra + (IF pay.emi > minEmi THEN pay.emi - Max(minEmi, interest) ELSE 0)

\* The row pushed to the schedule (theoreticalEmi is a field of v2 only);
\* pay is the payment of the month.
RowOf(monthEndDate, pay) ==
    IF variant = "v1"
    THEN [month |-> month,
          date |-> MonthStartDate,
          openingPrincipal |-> PrincipalNow(monthEndDate),
          emi |-> pay.emi,
          interest |-> Interest(monthEndDate),
          principalPaid |-> pay.principalPaid,
          extraPaid |-> ExtraPaid(pay, EmiNow(monthEndDate), Interest(monthEndDate)),
          closingPrincipal |-> PrincipalNow(monthEndDate) - pay.reduction,
          phase |-> PhaseIndexNow(monthEndDate),
          rate |-> RateNow(monthEndDate)]
    ELSE [month |-> month,
          date |-> MonthStartDate,
          openingPrincipal |-> PrincipalNow(monthEndDate),
          theoreticalEmi |-> EmiNow(monthEndDate),
          emi |-> pay.emi,
          interest |-> Interest(monthEndDate),
          principalPaid |-> pay.principalPaid,
          extraPaid |-> ExtraPaid(pay, EmiNow(monthEndDate), Interest(monthEndDate)),
          closingPrincipal |-> PrincipalNow(monthEndDate) - pay.reduction,
          phase |-> PhaseIndexNow(monthEndDate),
          rate |-> RateNow(monthEndDate)]

NewRow(monthEndDate) == RowOf(monthEndDate, MonthPayment(monthEndDate))

\* currentEmi / currentMinEmi at the end of the iteration: v1 keeps the EMI
\* (the clamped one when the clamp acted) and recomputes it only after an
\* extra payment; v2 recomputes it every month.  row is the row of the month.
EmiAfterRow(monthEndDate, row) ==
    IF variant = "v1"
    THEN IF row.extraPaid > 0
         THEN RefreshEmi(row.closingPrincipal, row.rate,
                         DifferenceInDays(loanEndDate, monthEndDate))
         ELSE row.emi
    ELSE RefreshEmi(row.closingPrincipal, row.rate,
                    DifferenceInDays(loanEndDate, monthEndDate))

\* (mutant) the total accumulates the interest rounded to whole currency units.
AddInterestRounded(total, interest) == total + (interest \div MoneyScale) * MoneyScale

\* totalInterest += interest
AddInterest(total, interest) == total + interest

NoSummary == [returned |-> FALSE]

(* An iteration that reaches the end of the loop body: one row is pushed.  *)
MonthRow ==
    /\ pc = "loop"
    /\ month <= MaxMonths
    /\ \E monthEndDate \in {AddMonths(MonthStartDate, 1)} :
         /\ ~ClosedNow(monthEndDate)
         /\ \E row \in {NewRow(monthEndDate)} :
              /\ schedule' = Append(schedule, row)
              /\ currentPrincipal' = row.closingPrincipal
              /\ totalInterest' = AddInterest(totalInterest, row.interest)
              /\ totalExtraPaid' = totalExtraPaid + row.extraPaid
              /\ currentEmi' = EmiAfterRow(monthEndDate, row)
         /\ currentInterestRate' = RateNow(monthEndDate)
         /\ processedRateChanges' = ProcessedRateChangesNow(monthEndDate)
         /\ processedDisbursals' = ProcessedDisbursalsNow(monthEndDate)
         /\ totalDisbursed' = TotalDisbursedNow(monthEndDate)
         /\ phases' = PhasesNow(monthEndDate)
         /\ currentPhaseIndex' = PhaseIndexNow(monthEndDate)
         /\ processedExtraPayments' =
                processedExtraPayments \cup DatesOf(MonthExtraPayments(monthEndDate))
         /\ currentDate' = monthEndDate
    /\ month' = month + 1
    /\ UNCHANGED <<inputVars, pc, exitBy, summary, history, apiVars>>

(* The iteration that leaves the loop by the break of the closure check.   *)
LoanClosed ==
    /\ pc = "loop"
    /\ month <= MaxMonths
    /\ \E monthEndDate \in {AddMonths(MonthStartDate, 1)} :
         /\ ClosedNow(monthEndDate)
         /\ currentInterestRate' = RateNow(monthEndDate)
         /\ processedRateChanges' = ProcessedRateChangesNow(monthEndDate)
         /\ processedDisbursals' = ProcessedDisbursalsNow(monthEndDate)
         /\ currentPrincipal' = PrincipalNow(monthEndDate)
         /\ totalDisbursed' = TotalDisbursedNow(monthEndDate)
         /\ phases' = PhasesNow(monthEndDate)
         /\ currentPhaseIndex' = PhaseIndexNow(monthEndDate)
         /\ currentEmi' = EmiNow(monthEndDate)
    /\ pc' = "exit"
    /\ exitBy' = "break"
    /\ UNCHANGED <<inputVars, month, currentDate, schedule, totalInterest,
                   totalExtraPaid, processedExtraPayments, summary, history,
                   apiVars>>

(* The loop condition fails: month > maxMonths.                            *)
LoopEnd ==
    /\ pc = "loop"
    /\ month > MaxMonths
    /\ pc' = "exit"
    /\ exitBy' = "cap"
    /\ UNCHANGED <<inputVars, loopVars, summary, history, apiVars>>

\* if (phases.length > 0) phases[phases.length - 1].endDate = currentDate
CloseLastPhase(list, date) ==
    IF Len(list) > 0 THEN [list EXCEPT ![Len(list)] = [@ EXCEPT !.endDate = date]]
    ELSE list

\* summary of the returned result.
SummaryOf ==
    [returned |-> TRUE,
     totalInterest |-> totalInterest,
     totalAmountPaid |->
         IF variant = "v1" THEN totalDisbursed + totalInterest + totalExtraPaid
         ELSE totalDisbursed + totalInterest,
     totalDisbursed |-> totalDisbursed,
     totalExtraPaid |-> totalExtraPaid,
     closureDate |-> currentDate]

\* The arguments of the call.
Args ==
    [variant |-> variant,
     loanTenureYears |-> loanTenureYears,
     initialInterestRate |-> initialInterestRate,
     startDate |-> startDate,
     disbursals |-> disbursals,
     interestRateChanges |-> interestRateChanges,
     extraPayments |-> extraPayments,
     fullEmiAtStart |-> fullEmiAtStart]

(* The code after the loop: the last phase is closed, the result returned  *)
(* to the caller.                                                          *)
Return ==
    /\ pc = "exit"
    /\ phases' = CloseLastPhase(phases, currentDate)
    /\ summary' = SummaryOf
    /\ pc' = "done"
    /\ history' = Append(history,
                         [args |-> Args,
                          result |-> [schedule |-> schedule,
                                      phases |-> phases',
                                      summary |-> summary']])
    /\ UNCHANGED <<inputVars, month, currentDate, currentPrincipal, currentPhaseIndex,
                   currentInterestRate, currentEmi, schedule, totalInterest,
                   totalDisbursed, totalExtraPaid, processedDisbursals,
                   processedRateChanges, processedExtraPayments, exitBy, apiVars>>

Next == MonthRow \/ LoanClosed \/ LoopEnd \/ Return

-----------------------------------------------------------------------------
(* The calls that are checked.                                             *)

\* Every sequence over E of length at most n.
SeqsUpTo(E, n) == UNION {[1..k -> E] : k \in 0..n}

Variants == {"v1", "v2"}
Tenures == {1}
StartDates == {DayOf(2024, 1, 31), DayOf(2025, 3, 10)}
InitialRates == {0, 12}
TargetEmis == {0, 300 * MoneyScale}

\* The events an input is made of, by their distance in days from startDate:
\* a first tranche on the start date and tranches in months 2 and 3; rate
\* changes before the start date, twice in month 1 and once in month 2; extra
\* payments before the start date, one in month 1 that exceeds every balance
\* and a partial one in month 2.
DisbursalChoices(start) ==
    {[date |-> start, amount |-> 1000 * MoneyScale],
     [date |-> start + 40, amount |-> 2000 * MoneyScale],
     [date |-> start + 70, amount |-> 1000 * MoneyScale]}

RateChangeChoices(start) ==
    {[date |-> start - 5, rate |-> 18],
     [date |-> start + 5, rate |-> 9],
     [date |-> start + 20, rate |-> 15],
     [date |-> start + 40, rate |-> 6]}

ExtraPaymentChoices(start) ==
    {[date |-> start - 5, amount |-> 200 * MoneyScale],
     [date |-> start + 10, amount |-> 10000 * MoneyScale],
     [date |-> start + 40, amount |-> 200 * MoneyScale]}

\* A tranche dated before the start date.
EarlyDisbursal(start) == [date |-> start - 5, amount |-> 1000 * MoneyScale]

\* The state when the loop is entered: the lists sorted, the accumulators 0.
InitWith(v, tenure, rate, start, d, rc, ep, target) ==
    /\ variant = v
    /\ loanTenureYears = tenure
    /\ initialInterestRate = rate
    /\ startDate = start
    /\ loanEndDate = AddMonths(start, tenure * 12)
    /\ disbursals = d
    /\ interestRateChanges = rc
    /\ extraPayments = ep
    /\ fullEmiAtStart = target
    /\ sortedDisbursals = SortByDate(d)
    /\ sortedRateChanges = SortByDate(rc)
    /\ sortedExtraPayments = SortByDate(ep)
    /\ month = 1
    /\ currentDate = start
    /\ currentPrincipal = 0
    /\ currentPhaseIndex = 0
    /\ currentInterestRate = rate
    /\ currentEmi = 0
    /\ schedule = << >>
    /\ phases = << >>
    /\ totalInterest = 0
    /\ totalDisbursed = 0
    /\ totalExtraPaid = 0
    /\ processedDisbursals = {}
    /\ processedRateChanges = {}
    /\ processedExtraPayments = {}
    /\ pc = "loop"
    /\ exitBy = "none"
    /\ summary = NoSummary
    /\ history = << >>
    /\ calculations = << >>
    /\ idSequence = 0
    /\ apiLog = << >>

\* The triples <<disbursals, rate changes, extra payments>> with at least one
\* tranche and at most n events in all; the lists come in any order.
EventLists(start, n) ==
    UNION {UNION {{<<d, rc, ep>> :
                     ep \in SeqsUpTo(ExtraPaymentChoices(start), n - Len(d) - Len(rc))} :
                  rc \in SeqsUpTo(RateChangeChoices(start), n - Len(d))} :
           d \in SeqsUpTo(DisbursalChoices(start), n) \ {<< >>}}

\* Calls with at least one tranche, every tranche dated from the start date on.
InitGeneral ==
    \E start \in StartDates :
    \E l \in EventLists(start, MaxEvents) :
    \E v \in Variants, tenure \in Tenures, rate \in InitialRates :
    \E target \in (IF v = "v1" THEN {0} ELSE TargetEmis) :
        InitWith(v, tenure, rate, start, l[1], l[2], l[3], target)

\* Calls with a tranche dated before the start date.
InitEarlyDisbursal ==
    \E v \in Variants :
    \E d \in {<<EarlyDisbursal(DayOf(2024, 1, 31))>>,
              <<[date |-> DayOf(2024, 1, 31), amount |-> 1000 * MoneyScale],
                EarlyDisbursal(DayOf(2024, 1, 31))>>} :
        InitWith(v, 1, 12, DayOf(2024, 1, 31), d, << >>, << >>, 0)

\* The principals of the plain loans: below the closure threshold of the
\* first version, a small one and the one of the reference case.
StandardPrincipals == {5 * MoneyScale, 1000 * MoneyScale, 1000000 * MoneyScale}
StandardTenures == {1, 2}

\* Plain loans: the whole principal disbursed on the start date, no rate
\* change, no extra payment, no target EMI.
InitStandard ==
    \E v \in Variants, tenure \in StandardTenures, rate \in InitialRates :
    \E start \in StartDates, principal \in StandardPrincipals :
        InitWith(v, tenure, rate, start,
                 <<[date |-> start, amount |-> principal]>>, << >>, << >>, 0)

\* Calls without any tranche, alone or with a rate change, an extra payment
\* and (second version) a target EMI.
InitNoDisbursal ==
    \E v \in Variants, start \in {DayOf(2025, 3, 10)} :
    \E l \in {<<<< >>, << >>, 0>>,
              <<<<[date |-> start + 5, rate |-> 9]>>,
                <<[date |-> start + 10, amount |-> 200 * MoneyScale]>>,
                300 * MoneyScale>>} :
        InitWith(v, 1, 12, start, << >>, l[1], l[2],
                 IF v = "v1" THEN 0 ELSE l[3])

\* The rates of the calls with a late tranche.
LateRates == {0, 36}

\* A tranche dated on the last day before the loan end date.
LateDisbursal(start, tenure) ==
    [date |-> AddMonths(start, tenure * 12) - 1, amount |-> 2000 * MoneyScale]

\* Calls whose last tranche comes on the eve of the loan end date, alone or
\* after a first tranche on the start date.
InitLateDisbursal ==
    \E v \in Variants, start \in StartDates, rate \in LateRates :
    \E d \in {<<LateDisbursal(start, 1)>>,
              <<[date |-> start, amount |-> 1000 * MoneyScale],
                LateDisbursal(start, 1)>>} :
    \E target \in (IF v = "v1" THEN {0} ELSE TargetEmis) :
        InitWith(v, 1, rate, start, d, << >>, << >>, target)

Init ==
    \/ InitGeneral
    \/ InitEarlyDisbursal
    \/ InitStandard
    \/ InitNoDisbursal
    \/ InitLateDisbursal

Spec == Init /\ [][Next]_vars

\* What an iteration of the loop does to month and pc: it ends with month++
\* or it leaves the loop by the break.
Iterate ==
    /\ pc = "loop"
    /\ month <= MaxMonths
    /\ \/ month' = month + 1 /\ pc' = pc
       \/ month' = month /\ pc' = "exit"

\* The call runs to its end: the function is sequential code without any
\* wait, so an iteration that can run does run (every step of MonthRow or
\* LoanClosed is a step of Iterate), and so do the end of the loop and the
\* code after it.
SpecLive ==
    /\ Init
    /\ [][Next]_vars
    /\ WF_<<month, pc>>(Iterate)
    /\ WF_vars(LoopEnd)
    /\ WF_vars(Return)

-----------------------------------------------------------------------------
(* Several calls, one after the other: what a caller that calculates again *)
(* (handleCalculate of the Home page) makes of the function.               *)

\* The most calls of one behaviour.
MaxCalls == 3

\* (mutant) the set of consumed dates lives outside the function.
KeptSet(old) == old

\* new Set<number>(): the sets of consumed dates are made by each call.
FreshSet(old) == {}

\* The arguments of the calls, each loan without and with a partial extra
\* payment in its second month: a plain loan (first version), a loan of a
\* leap year (first version), a loan with a target EMI (second version);
\* and a loan whose only tranche is dated before the start date.
CallInputs ==
    LET a == DayOf(2025, 3, 10)
        b == DayOf(2024, 1, 31)
        extra(start) == <<[date |-> start + 40, amount |-> 200 * MoneyScale]>>
        call(v, start, amount, ep, target) ==
            [variant |-> v, loanTenureYears |-> 1, initialInterestRate |-> 12,
             startDate |-> start,
             disbursals |-> <<[date |-> start, amount |-> amount * MoneyScale]>>,
             interestRateChanges |-> << >>, extraPayments |-> ep,
             fullEmiAtStart |-> target]
    IN  {call("v1", a, 1000, << >>, 0), call("v1", a, 1000, extra(a), 0),
         call("v1", b, 2000, << >>, 0), call("v1", b, 2000, extra(b), 0),
         call("v2", a, 1000, << >>, 300 * MoneyScale),
         call("v2", a, 1000, extra(a), 300 * MoneyScale),
         [call("v1", b, 1000, << >>, 0) EXCEPT !.disbursals = <<EarlyDisbursal(b)>>]}

InitCalls ==
    \E a \in CallInputs :
        InitWith(a.variant, a.loanTenureYears, a.initialInterestRate, a.startDate,
                 a.disbursals, a.interestRateChanges, a.extraPayments,
                 a.fullEmiAtStart)

(* The caller calls calculateLoan again: the declarations before the loop  *)
(* run anew.                                                               *)
Invoke ==
    /\ pc = "done"
    /\ Len(history) < MaxCalls
    /\ \E a \in CallInputs :
         /\ variant' = a.variant
         /\ loanTenureYears' = a.loanTenureYears
         /\ initialInterestRate' = a.initialInterestRate
         /\ startDate' = a.startDate
         /\ loanEndDate' = AddMonths(a.startDate, a.loanTenureYears * 12)
         /\ disbursals' = a.disbursals
         /\ interestRateChanges' = a.interestRateChanges
         /\ extraPayments' = a.extraPayments
         /\ fullEmiAtStart' = a.fullEmiAtStart
         /\ sortedDisbursals' = SortByDate(a.disbursals)
         /\ sortedRateChanges' = SortByDate(a.interestRateChanges)
         /\ sortedExtraPayments' = SortByDate(a.extraPayments)
         /\ currentDate' = a.startDate
         /\ currentInterestRate' = a.initialInterestRate
    /\ month' = 1
    /\ currentPrincipal' = 0
    /\ currentPhaseIndex' = 0
    /\ currentEmi' = 0
    /\ schedule' = << >>
    /\ phases' = << >>
    /\ totalInterest' = 0
    /\ totalDisbursed' = 0
    /\ totalExtraPaid' = 0
    /\ processedDisbursals' = FreshSet(processedDisbursals)
    /\ processedRateChanges' = FreshSet(processedRateChanges)
    /\ processedExtraPayments' = FreshSet(processedExtraPayments)
    /\ pc' = "loop"
    /\ exitBy' = "none"
    /\ summary' = NoSummary
    /\ UNCHANGED <<history, apiVars>>

NextCalls == MonthRow \/ LoanClosed \/ LoopEnd \/ Return \/ Invoke

SpecCalls == InitCalls /\ [][NextCalls]_vars

-----------------------------------------------------------------------------
(* The calculations API: the handlers of registerRoutes over the storage   *)
(* (DatabaseStorage, table "calculations").  A handler runs up to its      *)
(* await of a storage method; the statement of that method is one step of  *)
(* the database, so one action is one statement with the handler code      *)
(* around it.  apiLog keeps the statements in the order they ran.          *)

\* The most statements of one behaviour.
MaxRequests == 5

\* A Date as the API carries it: the day and the millisecond of the day.
\* Text, numeric strings and the dates inside the jsonb lists are strings.
ApiDisbursals == <<[date |-> "2025-03-10T00:00:00.000Z", amount |-> 1500000]>>
ApiRateChanges == <<[date |-> "2025-09-01T00:00:00.000Z", rate |-> 9]>>
ApiExtraPayments == <<[date |-> "2025-12-01T00:00:00.000Z", amount |-> 200000]>>

AllFields ==
    {"name", "totalLoanAmount", "loanTenureYears", "interestRate", "startDate",
     "disbursals", "interestRateChanges", "extraPayments"}

\* The columns that are notNull() and have no default.
RequiredFields ==
    {"name", "totalLoanAmount", "loanTenureYears", "interestRate", "startDate",
     "disbursals"}

\* The request bodies: a calculation with every list and a start date at
\* midnight; one as handleSave sends it (no rate changes, no extra payments)
\* with a start date of "now", to the millisecond; one without a name.
ApiBodies ==
    LET full == [fields |-> AllFields,
                 name |-> "plan A",
                 totalLoanAmount |-> "6000000",
                 loanTenureYears |-> "20",
                 interestRate |-> "8.5",
                 startDate |-> [day |-> DayOf(2025, 3, 10), ms |-> 0],
                 disbursals |-> ApiDisbursals,
                 interestRateChanges |-> ApiRateChanges,
                 extraPayments |-> ApiExtraPayments]
    IN  {full,
         [full EXCEPT !.fields = RequiredFields,
                      !.name = "plan B",
                      !.startDate = [day |-> DayOf(2025, 3, 10), ms |-> 45296789],
                      !.interestRateChanges = << >>,
                      !.extraPayments = << >>],
         [full EXCEPT !.fields = AllFields \ {"name"}]}

\* The ids of the GET and DELETE requests.
ApiIds == {1, 2}

\* api.calculations.create.input.parse(req.body): a ZodError unless every
\* required field is there.
ParseOk(body) == RequiredFields \subseteq body.fields

\* (mutant) a timestamp column that keeps whole seconds.
ToPgTimestampSeconds(d) ==
    [day |-> d.day, sec |-> d.ms \div 1000, us |-> 0]

\* timestamp("start_date"): a Date written to the column, to the microsecond.
ToPgTimestamp(d) ==
    [day |-> d.day, sec |-> d.ms \div 1000, us |-> (d.ms % 1000) * 1000]

\* The column read back as a Date, to the millisecond.
FromPgTimestamp(t) ==
    [day |-> t.day, ms |-> t.sec * 1000 + t.us \div 1000]

\* serial("id"): the next value of the sequence.
NextId(last) == last + 1

\* db.insert(calculations).values(input): the row of the table; a list the
\* input leaves out takes the default of its column.
InsertRow(input, id, now) ==
    [id |-> id,
     name |-> input.name,
     totalLoanAmount |-> input.totalLoanAmount,
     loanTenureYears |-> input.loanTenureYears,
     interestRate |-> input.interestRate,
     startDate |-> ToPgTimestamp(input.startDate),
     disbursals |-> input.disbursals,
     interestRateChanges |->
         IF "interestRateChanges" \in input.fields THEN input.interestRateChanges
         ELSE << >>,
     extraPayments |->
         IF "extraPayments" \in input.fields THEN input.extraPayments
         ELSE << >>,
     createdAt |-> now]

\* .returning() / db.select(): the row as a Calculation.
SelectItem(row) == [row EXCEPT !.startDate = FromPgTimestamp(@)]

\* (mutant) a delete without its where clause.
WithoutAnyRow(rows, id) == << >>

\* The table with one row more, and with one row less.
WithRow(rows, row) ==
    [i \in DOMAIN rows \cup {row.id} |-> IF i = row.id THEN row ELSE rows[i]]
WithoutRow(rows, id) == [i \in DOMAIN rows \ {id} |-> rows[i]]

NoBody == [fields |-> {}]
NoItem == [id |-> 0]

\* One statement of the log: the request, the status answered (0: none
\* yet) and the item answered; of is the lookup a removal belongs to.
LogEntry(op, id, status, body, item, of) ==
    [op |-> op, id |-> id, status |-> status, body |-> body, item |-> item,
     of |-> of]

\* The DELETE requests that found their row and await deleteCalculation.
PendingDeletes ==
    {i \in 1..Len(apiLog) :
        /\ apiLog[i].op = "DELETE"
        /\ apiLog[i].status = 0
        /\ \A k \in 1..Len(apiLog) : apiLog[k].of # i}

(* POST /api/calculations: parse, createCalculation, 201 (400 on a         *)
(* ZodError).                                                              *)
PostCalculation ==
    /\ Len(apiLog) < MaxRequests
    /\ \E body \in ApiBodies :
         IF ParseOk(body)
         THEN \E row \in {InsertRow(body, NextId(idSequence), Len(apiLog))} :
                /\ idSequence' = row.id
                /\ calculations' = WithRow(calculations, row)
                /\ apiLog' = Append(apiLog,
                       LogEntry("POST", row.id, 201, body, SelectItem(row), 0))
         ELSE /\ apiLog' = Append(apiLog, LogEntry("POST", 0, 400, body, NoItem, 0))
              /\ UNCHANGED <<calculations, idSequence>>
    /\ UNCHANGED calcVars

(* GET /api/calculations/:id: getCalculation, then the item or 404.        *)
GetCalculation ==
    /\ Len(apiLog) < MaxRequests
    /\ \E id \in ApiIds :
         apiLog' = Append(apiLog,
             IF id \in DOMAIN calculations
             THEN LogEntry("GET", id, 200, NoBody, SelectItem(calculations[id]), 0)
             ELSE LogEntry("GET", id, 404, NoBody, NoItem, 0))
    /\ UNCHANGED <<calcVars, calculations, idSequence>>

(* DELETE /api/calculations/:id, up to its second await: getCalculation,   *)
(* then 404 or on to deleteCalculation.                                    *)
DeleteLookup ==
    /\ Len(apiLog) < MaxRequests
    /\ \E id \in ApiIds :
         apiLog' = Append(apiLog,
             IF id \in DOMAIN calculations
             THEN LogEntry("DELETE", id, 0, NoBody, NoItem, 0)
             ELSE LogEntry("DELETE", id, 404, NoBody, NoItem, 0))
    /\ UNCHANGED <<calcVars, calculations, idSequence>>

(* DELETE /api/calculations/:id, the rest: deleteCalculation, then 204.    *)
DeleteRemove ==
    /\ Len(apiLog) < MaxRequests
    /\ \E i \in PendingDeletes :
         /\ calculations' = WithoutRow(calculations, apiLog[i].id)
         /\ apiLog' = Append(apiLog,
                LogEntry("DELETE", apiLog[i].id, 204, NoBody, NoItem, i))
    /\ UNCHANGED <<calcVars, idSequence>>

\* The server starts with the table as the database holds it: empty here.
InitApi == InitWith("v1", 1, 12, DayOf(2025, 3, 10), << >>, << >>, << >>, 0)

NextApi == PostCalculation \/ GetCalculation \/ DeleteLookup \/ DeleteRemove

SpecApi == InitApi /\ [][NextApi]_vars

-----------------------------------------------------------------------------
(* What the claims read off an input and a result.                         *)

Returned == pc = "done"

\* The entries of an event list dated in the month window that starts on date.
DatedInWindow(list, date) ==
    SelectSeq(list, LAMBDA e : e.date >= date /\ e.date < AddMonths(date, 1))

\* The entries of an event list dated in [from, before).
DatedWithin(list, from, before) ==
    SelectSeq(list, LAMBDA e : e.date >= from /\ e.date < before)

\* The sum of the interest of rows lo..hi.
RECURSIVE SumInterest(_, _, _)
SumInterest(rows, lo, hi) ==
    IF lo > hi THEN 0
    ELSE IF lo = hi THEN rows[lo].interest
    ELSE LET mid == (lo + hi) \div 2
         IN  SumInterest(rows, lo, mid) + SumInterest(rows, mid + 1, hi)

-----------------------------------------------------------------------------
(* C1 as stated: in the returned schedule the closing principal of every   *)
(* row equals the opening principal of the next row.                       *)
C1_Continuity ==
    Returned =>
        \A i \in 1..(Len(schedule) - 1) :
            schedule[i].closingPrincipal = schedule[i + 1].openingPrincipal

(* C1 amended: the opening principal of row i+1 is the closing principal   *)
(* of row i plus the amounts of the disbursals dated in the month window   *)
(* of row i+1; the two are equal when no disbursal is dated in it.         *)
C1_ContinuityUpToDisbursals ==
    Returned =>
        \A i \in 1..(Len(schedule) - 1) :
            schedule[i + 1].openingPrincipal =
                schedule[i].closingPrincipal
                + SumAmounts(DatedInWindow(disbursals, schedule[i + 1].date))

C1_Witness ==
    /\ Returned
    /\ \E i \in 1..(Len(schedule) - 1) :
        /\ schedule[i].closingPrincipal > 0
        /\ SumAmounts(DatedInWindow(disbursals, schedule[i + 1].date)) > 0

(* C2: in every row of the returned schedule 0 <= closingPrincipal <=      *)
(* openingPrincipal (the amounts and rates of every input are >= 0).       *)
C2_PrincipalBounds ==
    Returned =>
        \A i \in 1..Len(schedule) :
            /\ 0 <= schedule[i].closingPrincipal
            /\ schedule[i].closingPrincipal <= schedule[i].openingPrincipal

\* A row whose scheduled principal plus extra payments exceed the balance.
C2_Witness ==
    /\ Returned
    /\ \E i \in 1..Len(schedule) :
        /\ schedule[i].openingPrincipal > 0
        /\ SumAmounts(DatedInWindow(extraPayments, schedule[i].date))
               > schedule[i].openingPrincipal
        /\ schedule[i].closingPrincipal = 0

(* C3 as stated: summary.totalDisbursed is the sum of the amounts of all   *)
(* the disbursals passed to calculateLoan, whatever their dates.           *)
C3_TotalDisbursedIsSumOfAll ==
    Returned => summary.totalDisbursed = SumAmounts(disbursals)

(* C4 as stated: once month 1 is simulated, every disbursal, rate change   *)
(* and extra payment dated before startDate has been applied (consumed).   *)
C4_EarlyEventsAppliedInMonthOne ==
    month > 1 =>
        /\ \A i \in 1..Len(disbursals) :
               disbursals[i].date < startDate
                   => disbursals[i].date \in processedDisbursals
        /\ \A i \in 1..Len(interestRateChanges) :
               interestRateChanges[i].date < startDate
                   => interestRateChanges[i].date \in processedRateChanges
        /\ \A i \in 1..Len(extraPayments) :
               extraPayments[i].date < startDate
                   => extraPayments[i].date \in processedExtraPayments

(* C5: the interest of the rows of the returned schedule adds up to        *)
(* summary.totalInterest, whether the loop ended by the closure check or   *)
(* by the iteration cap.                                                   *)
C5_InterestSum ==
    Returned => summary.totalInterest = SumInterest(schedule, 1, Len(schedule))

\* A run that ends at the iteration cap after charging interest.
C5_Witness ==
    /\ Returned
    /\ exitBy = "cap"
    /\ summary.totalInterest > 0

(* C6: the loop stops in the first month in which, once the month's rate   *)
(* changes and disbursals are applied, principal <= epsilon, every         *)
(* disbursal is consumed and totalDisbursed > 0; that month pushes no row, *)
(* no row is pushed afterwards, and every month before it pushes exactly   *)
(* one row.                                                                *)
C6_Closure(principal, disbursed, processed) ==
    /\ IF variant = "v1" THEN principal <= 10 * MoneyScale
       ELSE principal <= MoneyScale \div 100
    /\ disbursed > 0
    /\ \A i \in 1..Len(disbursals) : disbursals[i].date \in processed

C6_TerminationOrdering ==
    /\ [](pc = "loop" =>
            /\ Len(schedule) = month - 1
            /\ \A i \in 1..Len(schedule) : schedule[i].month = i)
    /\ [][/\ (pc = "loop" /\ pc' = "exit" /\ exitBy' = "break") =>
               /\ schedule' = schedule
               /\ C6_Closure(currentPrincipal', totalDisbursed', processedDisbursals')
          /\ (Len(schedule') # Len(schedule)) =>
               /\ Len(schedule') = Len(schedule) + 1
               /\ schedule'[Len(schedule')].month = month
               /\ month' = month + 1
               /\ pc' = "loop"
               /\ ~C6_Closure(schedule'[Len(schedule')].openingPrincipal,
                              totalDisbursed', processedDisbursals')
          /\ (pc = "loop" /\ month <= MaxMonths) =>
               \/ (pc' = "exit" /\ exitBy' = "break")
               \/ Len(schedule') = Len(schedule) + 1
          /\ (pc # "loop") => schedule' = schedule
         ]_vars

\* A run closed by the check after a month of zero principal that did not
\* stop the loop, a disbursal being still unconsumed.
C6_Witness ==
    /\ Returned
    /\ exitBy = "break"
    /\ \E i \in 2..Len(schedule) :
        /\ schedule[i].openingPrincipal = 0
        /\ schedule[i - 1].openingPrincipal > 0

\* The extra payments of month k cover the whole balance of that month.
FullBalanceExtra(k) ==
    /\ SumAmounts(DatedInWindow(extraPayments, schedule[k].date)) > 0
    /\ SumAmounts(DatedInWindow(extraPayments, schedule[k].date))
           >= schedule[k].openingPrincipal

\* Every disbursal is dated within [startDate, end of month k).
AllDisbursedBy(k) ==
    \A i \in 1..Len(disbursals) :
        /\ disbursals[i].date >= startDate
        /\ disbursals[i].date < AddMonths(schedule[k].date, 1)

LatestRates(list) ==
    {list[j].rate : j \in {i \in 1..Len(list) :
                              \A k \in 1..Len(list) : list[k].date <= list[i].date}}

\* The rate in force once every rate change dated in [startDate, before) is
\* applied: that of the latest-dated one, the initial rate without any.
RatesInForce(before) ==
    IF DatedWithin(interestRateChanges, startDate, before) = << >>
    THEN {initialInterestRate}
    ELSE LatestRates(DatedWithin(interestRateChanges, startDate, before))

(* C8: when two or more rate changes are dated in the same month window,   *)
(* the phase opened that month has the rate of the latest-dated one and    *)
(* the EMI computed at that rate, all of them are consumed, and the rate   *)
(* of every row is that of the latest-dated rate change up to its month    *)
(* (no superseded change is applied later).                                *)
C8_LatestRateChangeWins ==
    Returned =>
        /\ \A p \in 1..Len(phases) :
            LET w == DatedInWindow(interestRateChanges, phases[p].startDate)
                emi == PhaseEmi(phases[p].principalAtStart, phases[p].rate,
                                DifferenceInDays(loanEndDate, phases[p].startDate))
            IN  Len(w) >= 2 =>
                    /\ phases[p].rate \in LatestRates(w)
                    /\ DatesOf(w) \subseteq processedRateChanges
                    /\ phases[p].emi =
                           (IF variant = "v1" THEN emi ELSE Max(emi, fullEmiAtStart))
        /\ \A i \in 1..Len(schedule) :
            schedule[i].rate \in RatesInForce(AddMonths(schedule[i].date, 1))

\* Two rate changes of one month, with different rates, passed latest first.
C8_Witness ==
    /\ Returned
    /\ Len(schedule) > 0
    /\ Len(interestRateChanges) >= 2
    /\ interestRateChanges[1].date > interestRateChanges[2].date
    /\ interestRateChanges[1].rate # interestRateChanges[2].rate
    /\ \E p \in 1..Len(phases) :
        {interestRateChanges[1], interestRateChanges[2]} \subseteq
            {DatedInWindow(interestRateChanges, phases[p].startDate)[i] :
                i \in 1..Len(DatedInWindow(interestRateChanges, phases[p].startDate))}

\* A disbursal or rate change is dated in the month window starting on date.
EventInWindow(date) ==
    \/ DatedInWindow(disbursals, date) # << >>
    \/ DatedInWindow(interestRateChanges, date) # << >>

(* C9 as stated: with at least one disbursal the phase list is non-empty   *)
(* and phases[0].startDate is the loan's startDate.                        *)
C9_FirstPhaseAtStart ==
    (Returned /\ Len(disbursals) >= 1) =>
        /\ Len(phases) >= 1
        /\ phases[1].startDate = startDate

(* C9 amended: phases[0] starts with the first month in which a disbursal  *)
(* or a rate change is dated (on or after startDate); it starts on         *)
(* startDate exactly when one is dated in the first month window, and the  *)
(* list is empty when none is dated in the simulated months.               *)
C9_FirstPhaseAtFirstEvent ==
    Returned =>
        /\ (Len(phases) >= 1 /\ phases[1].startDate = startDate)
               <=> EventInWindow(startDate)
        /\ Len(phases) >= 1 =>
               /\ EventInWindow(phases[1].startDate)
               /\ DatedWithin(disbursals, startDate, phases[1].startDate) = << >>
               /\ DatedWithin(interestRateChanges, startDate, phases[1].startDate) = << >>
        /\ Len(phases) = 0 =>
               /\ DatedWithin(disbursals, startDate, summary.closureDate) = << >>
               /\ DatedWithin(interestRateChanges, startDate, summary.closureDate) = << >>

\* The first tranche and the first rate change come after the first month.
C9_Witness ==
    /\ Returned
    /\ Len(disbursals) >= 1
    /\ Len(phases) >= 1
    /\ phases[1].startDate > startDate

(* C10: in the returned phase list phases[i].phaseIndex = i, the start     *)
(* dates increase strictly, every phase ends where the next one starts,    *)
(* and the last phase's endDate is not null and is summary.closureDate.    *)
C10_PhaseList ==
    Returned =>
        \A i \in 1..Len(phases) :
            /\ phases[i].phaseIndex = i - 1
            /\ i < Len(phases) =>
                   /\ phases[i].startDate < phases[i + 1].startDate
                   /\ phases[i].endDate = phases[i + 1].startDate
            /\ i = Len(phases) =>
                   /\ phases[i].endDate # NullDate
                   /\ phases[i].endDate = summary.closureDate

C10_Witness ==
    /\ Returned
    /\ Len(phases) >= 3

-----------------------------------------------------------------------------
\* The row is the last one and leaves no balance: the payoff row.
PayoffRow(i) ==
    /\ i = Len(schedule)
    /\ schedule[i].closingPrincipal = 0

(* C11 as stated: every row dated in [phases[p].startDate,                 *)
(* phases[p].endDate) has the emi of phase p, the final payoff row         *)
(* excepted.                                                               *)
C11_ConstantEmiPerPhase ==
    Returned =>
        \A p \in 1..Len(phases) : \A i \in 1..Len(schedule) :
            (/\ schedule[i].date >= phases[p].startDate
             /\ schedule[i].date < phases[p].endDate
             /\ ~PayoffRow(i))
                => schedule[i].emi = phases[p].emi

(* C12 as stated: the interest of every row is openingPrincipal x          *)
(* (rate / 12 / 100), also in a month with a disbursal or a rate change.   *)
C12_FlatInterestEveryMonth ==
    Returned =>
        \A i \in 1..Len(schedule) :
            schedule[i].interest =
                (schedule[i].openingPrincipal * schedule[i].rate) \div 1200

\* A plain loan: one tranche on the start date (above the closure threshold
\* of either version), no rate change, no extra payment, no target EMI.
PlainLoan ==
    /\ Len(disbursals) = 1
    /\ disbursals[1].date = startDate
    /\ disbursals[1].amount > 10 * MoneyScale
    /\ interestRateChanges = << >>
    /\ extraPayments = << >>
    /\ fullEmiAtStart = 0

(* C13 as stated: a plain loan at rate 0 has the EMI principal /            *)
(* remainingMonths (remainingMonths = days to the loan end / 30.4375) and  *)
(* a schedule of exactly tenureYears x 12 rows.                            *)
C13_ZeroInterestLoan ==
    (Returned /\ PlainLoan /\ initialInterestRate = 0) =>
        /\ Len(phases) = 1
        /\ phases[1].emi =
               MulDiv(disbursals[1].amount, 487, (loanEndDate - startDate) * 16)
        /\ Len(schedule) = loanTenureYears * 12

\* P * r * (1+r)^n / ((1+r)^n - 1) for a whole number n of months.
ClosedFormEmi(principal, rate, n) ==
    LET interest == (principal * rate) \div 1200
    IN  interest + DivFix(interest, PowInt(FixedOne + MonthlyRate(rate), n) - FixedOne)

(* C14 as stated: a plain loan at a positive rate has phases[0].emi equal  *)
(* to the closed-form EMI over n = tenure x 12 months (here: within 1%),   *)
(* exactly n rows, and a last closing principal of about 0 (here: at most  *)
(* 10 currency units).                                                     *)
C14_StandardLoan ==
    (Returned /\ PlainLoan /\ initialInterestRate > 0) =>
        LET n == loanTenureYears * 12
            closed == ClosedFormEmi(disbursals[1].amount, initialInterestRate, n)
        IN  /\ Len(phases) >= 1
            /\ 100 * (phases[1].emi - closed) <= closed
            /\ 100 * (closed - phases[1].emi) <= closed
            /\ Len(schedule) = n
            /\ schedule[n].closingPrincipal <= 10 * MoneyScale

\* The iteration cap of either version.
C15_Cap == IF variant = "v1" THEN loanTenureYears * 12 + 120 ELSE 1200

(* C15: the loop never runs beyond the cap, it is left only by the closure *)
(* check or by the cap, and the call then returns; a run whose closure     *)
(* check never succeeded (the principal is above epsilon or a disbursal is *)
(* unconsumed at the end) returns a schedule of exactly cap rows, and a    *)
(* run ended by the closure check returns fewer than cap rows.             *)
C15_CapDetectable ==
    /\ pc = "loop" => (month <= C15_Cap + 1 /\ exitBy = "none")
    /\ pc # "loop" => exitBy \in {"break", "cap"}
    /\ Returned =>
        /\ exitBy \in {"break", "cap"}
        /\ exitBy = "cap" => Len(schedule) = C15_Cap
        /\ exitBy = "break" => Len(schedule) < C15_Cap
        /\ ~C6_Closure(currentPrincipal, totalDisbursed, processedDisbursals)
               => Len(schedule) = C15_Cap

\* A run that ends at the cap with a disbursal never consumed.
C15_Witness ==
    /\ Returned
    /\ exitBy = "cap"
    /\ Len(schedule) = C15_Cap
    /\ \E i \in 1..Len(disbursals) : disbursals[i].date \notin processedDisbursals

(* C16: with an empty disbursal list the call returns (the loop is left by *)
(* the cap, never by a failure), every row of the                          *)
(* result has openingPrincipal, emi, interest, principalPaid, extraPaid    *)
(* and closingPrincipal 0, and summary.totalDisbursed, totalInterest and   *)
(* totalExtraPaid are 0.                                                   *)
C16_EmptyDisbursals ==
    disbursals = << >> =>
        /\ pc # "loop" => exitBy = "cap"
        /\ Returned =>
            /\ \A i \in 1..Len(schedule) :
                   /\ schedule[i].openingPrincipal = 0
                   /\ schedule[i].emi = 0
                   /\ schedule[i].interest = 0
                   /\ schedule[i].principalPaid = 0
                   /\ schedule[i].extraPaid = 0
                   /\ schedule[i].closingPrincipal = 0
            /\ summary.totalDisbursed = 0
            /\ summary.totalInterest = 0
            /\ summary.totalExtraPaid = 0

\* A call without tranches but with a rate change and an extra payment.
C16_Witness ==
    /\ Returned
    /\ disbursals = << >>
    /\ Len(schedule) > 0
    /\ Len(interestRateChanges) > 0
    /\ Len(extraPayments) > 0

(* C18: row n has month n and the date startDate advanced n-1 times by one *)
(* calendar month (each step from the date of the row before), and         *)
(* summary.closureDate is one calendar month after the date of the last    *)
(* row, startDate itself when the schedule is empty.                       *)
C18_RowDating ==
    Returned =>
        /\ \A n \in 1..Len(schedule) :
               /\ schedule[n].month = n
               /\ schedule[n].date =
                      (IF n = 1 THEN startDate ELSE AddMonths(schedule[n - 1].date, 1))
        /\ summary.closureDate =
               (IF Len(schedule) = 0 THEN startDate
                ELSE AddMonths(schedule[Len(schedule)].date, 1))

\* A start on the 31st: the third row is dated the 29th of March, where the
\* second row (29th of February) leads, not the 31st.
C18_Witness ==
    /\ Returned
    /\ Len(schedule) >= 3
    /\ schedule[3].date # AddMonths(startDate, 2)

-----------------------------------------------------------------------------
(* C17: two returned calls with the same arguments have the same schedule, *)
(* phases and summary, whatever calls were made before or between them.    *)
C17_Deterministic ==
    \A i \in 1..Len(history) : \A j \in 1..Len(history) :
        history[i].args = history[j].args
            => history[i].result = history[j].result

\* The same call made twice with a different call in between.
C17_Witness ==
    /\ Len(history) >= 3
    /\ history[1].args = history[3].args
    /\ history[2].args # history[1].args
    /\ Len(history[1].result.schedule) > 0
    /\ Len(history[2].result.schedule) > 0

\* The call more has the arguments of the call base and one extra payment
\* more: positive, dated from the start date on and before the closure of
\* base, and smaller than the principal outstanding in its month.
AddsExtraPayment(base, more) ==
    /\ [more.args EXCEPT !.extraPayments = << >>]
           = [base.args EXCEPT !.extraPayments = << >>]
    /\ Len(more.args.extraPayments) = Len(base.args.extraPayments) + 1
    /\ SubSeq(more.args.extraPayments, 1, Len(base.args.extraPayments))
           = base.args.extraPayments
    /\ LET e == more.args.extraPayments[Len(more.args.extraPayments)]
       IN  /\ e.amount > 0
           /\ e.date >= base.args.startDate
           /\ e.date < base.result.summary.closureDate
           /\ \E k \in 1..Len(more.result.schedule) :
                  /\ more.result.schedule[k].date <= e.date
                  /\ e.date < AddMonths(more.result.schedule[k].date, 1)
                  /\ e.amount < more.result.schedule[k].openingPrincipal

(* C19 as stated: of two calls that differ by one such extra payment, the  *)
(* one with it returns fewer rows and an earlier closureDate.              *)
C19_ExtraPaymentShortens ==
    \A i \in 1..Len(history) : \A j \in 1..Len(history) :
        AddsExtraPayment(history[i], history[j]) =>
            /\ Len(history[j].result.schedule) < Len(history[i].result.schedule)
            /\ history[j].result.summary.closureDate
                   < history[i].result.summary.closureDate

-----------------------------------------------------------------------------
\* The item has the name, the loan parameters, the start date and the three
\* lists of the body (an empty list for a list the body leaves out).
SameAsSubmitted(body, item) ==
    /\ item.name = body.name
    /\ item.totalLoanAmount = body.totalLoanAmount
    /\ item.loanTenureYears = body.loanTenureYears
    /\ item.interestRate = body.interestRate
    /\ item.startDate = body.startDate
    /\ item.disbursals = body.disbursals
    /\ item.interestRateChanges =
           (IF "interestRateChanges" \in body.fields THEN body.interestRateChanges
            ELSE << >>)
    /\ item.extraPayments =
           (IF "extraPayments" \in body.fields THEN body.extraPayments ELSE << >>)

\* Statement j is a GET of the id that the accepted POST i created, and no
\* DELETE of that id ran in between.
ReadsBack(i, j) ==
    /\ i < j
    /\ apiLog[i].op = "POST"
    /\ apiLog[i].status = 201
    /\ apiLog[j].op = "GET"
    /\ apiLog[j].id = apiLog[i].id
    /\ \A k \in (i + 1)..(j - 1) :
           ~(apiLog[k].op = "DELETE" /\ apiLog[k].id = apiLog[i].id)

-----------------------------------------------------------------------------
(* C21: an iteration of the loop pushes a phase if and only if a rate      *)
(* change or a disbursal is dated in its month window, and then exactly    *)
(* one, whatever the number and the kinds of the entries; all of them are  *)
(* consumed, the phase starts with the month, its rate is that of the      *)
(* latest-dated rate change of the month (the rate in force without one),  *)
(* its principalAtStart is the principal after all the disbursals of the   *)
(* month and its disbursalAdded is the sum of their amounts.               *)
C21_OnePhasePerEventMonth ==
    [][(pc = "loop" /\ month <= MaxMonths) =>
          LET rc == DatedInWindow(interestRateChanges, currentDate)
              d == DatedInWindow(disbursals, currentDate)
          IN  /\ processedRateChanges' = processedRateChanges \cup DatesOf(rc)
              /\ processedDisbursals' = processedDisbursals \cup DatesOf(d)
              /\ (rc = << >> /\ d = << >>) => phases' = phases
              /\ (rc # << >> \/ d # << >>) =>
                    /\ Len(phases') = Len(phases) + 1
                    /\ phases'[Len(phases')].startDate = currentDate
                    /\ phases'[Len(phases')].rate = currentInterestRate'
                    /\ phases'[Len(phases')].rate \in
                           (IF rc # << >> THEN LatestRates(rc)
                            ELSE {currentInterestRate})
                    /\ phases'[Len(phases')].principalAtStart
                           = currentPrincipal + SumAmounts(d)
                    /\ phases'[Len(phases')].disbursalAdded = SumAmounts(d)
      ]_vars

\* A phase opened by a month with two tranches and a rate change other
\* than the rate in force.
C21_Witness ==
    /\ Returned
    /\ Len(schedule) > 0
    /\ \E p \in 1..Len(phases) :
        /\ Len(DatedInWindow(disbursals, phases[p].startDate)) >= 2
        /\ DatedInWindow(interestRateChanges, phases[p].startDate) # << >>
        /\ phases[p].rate # initialInterestRate
        /\ phases[p].disbursalAdded > 1000 * MoneyScale

-----------------------------------------------------------------------------
(* C22 as stated: a row of a month whose scheduled principal (the EMI to   *)
(* pay less the interest, at least 0) plus extra payments exceed the       *)
(* outstanding principal has principalPaid >= 0, extraPaid >= 0,           *)
(* principalPaid + extraPaid = openingPrincipal, closingPrincipal = 0 and  *)
(* emi = principalPaid + interest.                                         *)
C22_ReductionClamp ==
    [][(Len(schedule') = Len(schedule) + 1) =>
          LET row == schedule'[Len(schedule')]
              scheduled == Max(0, EmiToPay(AddMonths(currentDate, 1)) - row.interest)
              extra == SumAmounts(DatedInWindow(extraPayments, currentDate))
          IN  (scheduled + extra > row.openingPrincipal) =>
                  /\ row.principalPaid >= 0
                  /\ row.extraPaid >= 0
                  /\ row.principalPaid + row.extraPaid = row.openingPrincipal
                  /\ row.closingPrincipal = 0
                  /\ row.emi = row.principalPaid + row.interest
      ]_vars

-----------------------------------------------------------------------------
\* The sum of the extraPaid of rows lo..hi.
RECURSIVE SumExtraPaid(_, _, _)
SumExtraPaid(rows, lo, hi) ==
    IF lo > hi THEN 0
    ELSE IF lo = hi THEN rows[lo].extraPaid
    ELSE LET mid == (lo + hi) \div 2
         IN  SumExtraPaid(rows, lo, mid) + SumExtraPaid(rows, mid + 1, hi)

(* C23 as stated: in every row of the returned schedule closingPrincipal = *)
(* openingPrincipal - principalPaid - extraPaid, and summary.totalExtraPaid *)
(* is the sum of the extraPaid of the rows, with a target EMI or without.  *)
C23_RowAccounting ==
    Returned =>
        /\ \A i \in 1..Len(schedule) :
               schedule[i].closingPrincipal =
                   schedule[i].openingPrincipal - schedule[i].principalPaid
                       - schedule[i].extraPaid
        /\ summary.totalExtraPaid = SumExtraPaid(schedule, 1, Len(schedule))

-----------------------------------------------------------------------------
\* The theoretical EMI in force in the month of row i: computed for the
\* phase the month opens, else recomputed after the row before.
TheoreticalEmiOf(i) ==
    IF EventInWindow(schedule[i].date)
    THEN PhaseEmi(schedule[i].openingPrincipal, schedule[i].rate,
                  DifferenceInDays(loanEndDate, schedule[i].date))
    ELSE IF i = 1 THEN 0
    ELSE RefreshEmi(schedule[i - 1].closingPrincipal, schedule[i - 1].rate,
                    DifferenceInDays(loanEndDate, schedule[i].date))

(* C24: with a target EMI above 0 (second version), every row with a       *)
(* positive opening principal whose payment the clamp does not reduce has  *)
(* emi = max(theoretical EMI of the month, target EMI) and principalPaid = *)
(* max(0, emi - interest), and every phase has emi = max(EMI computed for  *)
(* the phase, target EMI).                                                 *)
C24_TargetEmiFloor ==
    (Returned /\ fullEmiAtStart > 0) =>
        /\ \A i \in 1..Len(schedule) :
             LET row == schedule[i]
                 emi == Max(TheoreticalEmiOf(i), fullEmiAtStart)
                 paid == Max(0, emi - row.interest)
                 extra == SumAmounts(DatedInWindow(extraPayments, row.date))
             IN  (row.openingPrincipal > 0 /\ paid + extra <= row.openingPrincipal)
                     => /\ row.theoreticalEmi = TheoreticalEmiOf(i)
                        /\ row.emi = emi
                        /\ row.principalPaid = paid
        /\ \A p \in 1..Len(phases) :
             phases[p].emi =
                 Max(PhaseEmi(phases[p].principalAtStart, phases[p].rate,
                              DifferenceInDays(loanEndDate, phases[p].startDate)),
                     fullEmiAtStart)

\* A loan whose target EMI is above the computed EMI in one month and
\* below it in another, neither payment clamped.
C24_Witness ==
    /\ Returned
    /\ fullEmiAtStart > 0
    /\ \E i \in 1..Len(schedule) : \E j \in 1..Len(schedule) :
        /\ schedule[i].theoreticalEmi < fullEmiAtStart
        /\ schedule[i].emi = fullEmiAtStart
        /\ schedule[i].closingPrincipal > 0
        /\ schedule[j].theoreticalEmi > fullEmiAtStart
        /\ schedule[j].emi = schedule[j].theoreticalEmi
        /\ schedule[j].closingPrincipal > 0

-----------------------------------------------------------------------------
\* The row is all zero: no payment activity.
NoActivity(row) ==
    /\ row.openingPrincipal = 0
    /\ row.emi = 0
    /\ row.interest = 0
    /\ row.principalPaid = 0
    /\ row.extraPaid = 0
    /\ row.closingPrincipal = 0

(* C25: an iteration that starts with no outstanding principal and has no  *)
(* disbursal dated in its month window, the loan not being closed (no      *)
(* tranche consumed yet, or one still to come), pushes a row with          *)
(* openingPrincipal, emi, interest, principalPaid, extraPaid and           *)
(* closingPrincipal 0, with or without a target EMI, extra payments or a   *)
(* rate change in the month, and goes on with the next calendar month.     *)
C25_IdleMonth ==
    [][(/\ pc = "loop"
        /\ month <= MaxMonths
        /\ currentPrincipal = 0
        /\ DatedInWindow(disbursals, currentDate) = << >>
        /\ ~C6_Closure(currentPrincipal, totalDisbursed, processedDisbursals))
          => /\ Len(schedule') = Len(schedule) + 1
             /\ NoActivity(schedule'[Len(schedule')])
             /\ schedule'[Len(schedule')].date = currentDate
             /\ currentPrincipal' = 0
             /\ currentDate' = AddMonths(currentDate, 1)
             /\ month' = month + 1
             /\ pc' = "loop"
      ]_vars

\* A month without balance after a payoff, a tranche being still to come,
\* on a loan with a target EMI.
C25_Witness ==
    /\ Returned
    /\ fullEmiAtStart > 0
    /\ \E i \in 2..Len(schedule) :
        /\ schedule[i - 1].openingPrincipal > 0
        /\ schedule[i - 1].closingPrincipal = 0
        /\ NoActivity(schedule[i])
        /\ Len(schedule) > i

-----------------------------------------------------------------------------
(* C26: every iteration that pushes a row applies exactly the entries      *)
(* dated in its month window, each one once, entries of one date           *)
(* included: the disbursals of the window are added to the principal and   *)
(* to totalDisbursed, its rate changes are consumed and the latest-dated   *)
(* one sets the rate, its extra payments reduce the principal (up to the   *)
(* balance); the next window starts where this one ends, so no entry is    *)
(* applied twice, and in the returned result every entry dated in          *)
(* [startDate, closureDate) is consumed.                                   *)
C26_EachEntryOnce ==
    /\ [][(Len(schedule') = Len(schedule) + 1) =>
             LET row == schedule'[Len(schedule')]
                 d == DatedInWindow(disbursals, currentDate)
                 rc == DatedInWindow(interestRateChanges, currentDate)
                 ep == DatedInWindow(extraPayments, currentDate)
             IN  /\ row.date = currentDate
                 /\ currentDate' = AddMonths(currentDate, 1)
                 /\ totalDisbursed' = totalDisbursed + SumAmounts(d)
                 /\ row.openingPrincipal = currentPrincipal + SumAmounts(d)
                 /\ processedDisbursals' = processedDisbursals \cup DatesOf(d)
                 /\ DatesOf(d) \cap processedDisbursals = {}
                 /\ processedRateChanges' = processedRateChanges \cup DatesOf(rc)
                 /\ DatesOf(rc) \cap processedRateChanges = {}
                 /\ rc # << >> => row.rate \in LatestRates(rc)
                 /\ rc = << >> => row.rate = currentInterestRate
                 /\ processedExtraPayments' = processedExtraPayments \cup DatesOf(ep)
                 /\ DatesOf(ep) \cap processedExtraPayments = {}
                 /\ row.openingPrincipal - row.closingPrincipal - row.principalPaid
                        = Min(SumAmounts(ep), row.openingPrincipal)
         ]_vars
    /\ [](Returned =>
             /\ DatesOf(DatedWithin(disbursals, startDate, summary.closureDate))
                    \subseteq processedDisbursals
             /\ DatesOf(DatedWithin(interestRateChanges, startDate, summary.closureDate))
                    \subseteq processedRateChanges
             /\ DatesOf(DatedWithin(extraPayments, startDate, summary.closureDate))
                    \subseteq processedExtraPayments
             /\ summary.totalDisbursed >=
                    SumAmounts(DatedWithin(disbursals, startDate, summary.closureDate)))

\* Two tranches of one date, both added to the principal of their month,
\* and an extra payment applied in a later month.
C26_Witness ==
    /\ Returned
    /\ Len(schedule) >= 2
    /\ Len(disbursals) = 2
    /\ disbursals[1].date = disbursals[2].date
    /\ summary.totalDisbursed = SumAmounts(disbursals)
    /\ \E i \in 2..Len(schedule) :
        /\ DatedInWindow(extraPayments, schedule[i].date) # << >>
        /\ schedule[i].closingPrincipal > 0

-----------------------------------------------------------------------------
(* C27 as stated: for every row dated from the start of the first phase    *)
(* on, phases[row.phase] exists (the list is indexed from 0: it is the     *)
(* entry row.phase + 1 here), the row is dated within that phase and has   *)
(* its rate.                                                               *)
C27_RowPhaseInForce ==
    Returned =>
        \A i \in 1..Len(schedule) :
            (Len(phases) >= 1 /\ schedule[i].date >= phases[1].startDate) =>
                /\ schedule[i].phase + 1 \in 1..Len(phases)
                /\ phases[schedule[i].phase + 1].startDate <= schedule[i].date
                /\ schedule[i].date < phases[schedule[i].phase + 1].endDate
                /\ schedule[i].rate = phases[schedule[i].phase + 1].rate

-----------------------------------------------------------------------------
\* The principal repaid over rows lo..hi: the sum of openingPrincipal -
\* closingPrincipal.
RECURSIVE SumRepaid(_, _, _)
SumRepaid(rows, lo, hi) ==
    IF lo > hi THEN 0
    ELSE IF lo = hi THEN rows[lo].openingPrincipal - rows[lo].closingPrincipal
    ELSE LET mid == (lo + hi) \div 2
         IN  SumRepaid(rows, lo, mid) + SumRepaid(rows, mid + 1, hi)

\* The closure epsilon as an amount.
ClosureEpsilon == IF variant = "v1" THEN 10 * MoneyScale ELSE MoneyScale \div 100

(* C28 as stated: when the loop is left by the closure check,              *)
(* summary.totalAmountPaid is summary.totalInterest plus the principal     *)
(* repaid over the rows, up to the closure epsilon.                        *)
C28_TotalAmountPaid ==
    (Returned /\ exitBy = "break") =>
        LET paid == summary.totalInterest + SumRepaid(schedule, 1, Len(schedule))
        IN  /\ summary.totalAmountPaid - paid <= ClosureEpsilon
            /\ paid - summary.totalAmountPaid <= ClosureEpsilon

-----------------------------------------------------------------------------
\* Statement j is the lookup of a GET or of a DELETE request.
IsLookup(j) ==
    /\ apiLog[j].op \in {"GET", "DELETE"}
    /\ apiLog[j].of = 0

\* The ids that the requests answered so far make stored: created by an
\* accepted POST and not removed by a DELETE.
StoredByLog ==
    {apiLog[i].id : i \in {k \in 1..Len(apiLog) :
                              apiLog[k].op = "POST" /\ apiLog[k].status = 201}}
    \ {apiLog[i].id : i \in {k \in 1..Len(apiLog) :
                                apiLog[k].op = "DELETE" /\ apiLog[k].status = 204}}

(* C29: the lookup of a GET or DELETE answers 404 exactly when its id is   *)
(* not stored, and leaves the table as it is; a DELETE that found its id   *)
(* answers 204 and leaves the table without that id and with every other   *)
(* row as it was; the stored ids are those created and not deleted, and    *)
(* after a 204 for an id every lookup of that id answers 404, whatever     *)
(* requests come before, between or after.                                 *)
C29_NotFoundAndDelete ==
    /\ [][(Len(apiLog') = Len(apiLog) + 1) =>
             LET e == apiLog'[Len(apiLog')]
             IN  /\ (e.op \in {"GET", "DELETE"} /\ e.of = 0) =>
                       /\ (e.status = 404) <=> (e.id \notin DOMAIN calculations)
                       /\ (e.id \in DOMAIN calculations) =>
                              e.status = (IF e.op = "GET" THEN 200 ELSE 0)
                       /\ calculations' = calculations
                 /\ (e.op = "DELETE" /\ e.of # 0) =>
                       /\ e.status = 204
                       /\ apiLog[e.of].op = "DELETE"
                       /\ apiLog[e.of].id = e.id
                       /\ apiLog[e.of].status = 0
                       /\ DOMAIN calculations' = DOMAIN calculations \ {e.id}
                       /\ \A k \in DOMAIN calculations' :
                              calculations'[k] = calculations[k]
         ]_vars
    /\ [](DOMAIN calculations = StoredByLog)
    /\ [](\A i \in 1..Len(apiLog) : \A j \in 1..Len(apiLog) :
             (/\ i < j
              /\ apiLog[i].op = "DELETE"
              /\ apiLog[i].status = 204
              /\ IsLookup(j)
              /\ apiLog[j].id = apiLog[i].id)
                 => apiLog[j].status = 404)

\* Of two stored calculations one is deleted and then asked for again,
\* the other one is still stored.
C29_Witness ==
    /\ Cardinality(DOMAIN calculations) = 1
    /\ \E i \in 1..Len(apiLog) : \E j \in 1..Len(apiLog) :
        /\ i < j
        /\ apiLog[i].op = "DELETE"
        /\ apiLog[i].status = 204
        /\ apiLog[i].id \notin DOMAIN calculations
        /\ IsLookup(j)
        /\ apiLog[j].id = apiLog[i].id
        /\ apiLog[j].status = 404

-----------------------------------------------------------------------------
\* The input of C30: at least one tranche, every tranche positive and dated
\* within [startDate, loan end date).  (Rates and extra payments are never
\* negative in the calls of the model.)
DisbursedWithinTenure ==
    /\ Len(disbursals) >= 1
    /\ \A i \in 1..Len(disbursals) :
        /\ disbursals[i].amount > 0
        /\ disbursals[i].date >= startDate
        /\ disbursals[i].date < loanEndDate

====
